---- MODULE Spec2Model ----
(***************************************************************************)
(* The reprojection filter of src/src/filters/ReprojectionFilter.cpp: its  *)
(* three constructors, initialize() (base initialization, impedance check, *)
(* input inference, Transform Service handles, declared spatial reference, *)
(* bounds recompute), processBuffer() one loop iteration per step, and the *)
(* release of the handles when the filter instance is destroyed.           *)
(*                                                                         *)
(* Coordinates are integers; the Transform Service (GDAL/OGR) is an opaque *)
(* collaborator whose per-call outcome is a nondeterministic choice.       *)
(***************************************************************************)
EXTENDS Integers, Sequences, FiniteSets, TLC

\* Capacity of the point buffers handed to processBuffer.
MaxPoints == 3

----------------------------------------------------------------------------
\* Values

NULL == 0

\* Spatial-reference texts.  NoSRS is the empty descriptor, Undefined what an
\* uninitialized upstream stage declares.
NoSRS == ""
Undefined == "?"
KnownSRS == {"EPSG:4326", "EPSG:26915"}
SRSTexts == KnownSRS \cup {"garbage"}

\* Dimension identifiers of a schema.
RequiredDims == {"X_f64", "Y_f64", "Z_f64"}
Schemas == {s \cup {"Time_u64"} : s \in SUBSET RequiredDims} \cup {{"X_i32", "Y_f64", "Z_f64", "Time_u64"}}

\* Bounds<double>: an axis-aligned box, or the empty value.
EmptyBounds == [valid |-> FALSE, min |-> <<0, 0, 0>>, max |-> <<0, 0, 0>>]
Bounds(minx, miny, minz, maxx, maxy, maxz) == [valid |-> TRUE, min |-> <<minx, miny, minz>>, max |-> <<maxx, maxy, maxz>>]
UpstreamBounds == {EmptyBounds, Bounds(0, 0, 0, 1, 2, 3), Bounds(1, 1, 1, 1, 1, 1)}
\* What getMinimum/getMaximum give on the empty value is unspecified.
UnspecifiedCorners == {<<0, 0, 0>>, <<1, 0, 0>>}

\* Points of a buffer: X, Y, Z and one more field.
InputPoints == {[X |-> 0, Y |-> 0, Z |-> 0, Time |-> 5], [X |-> 1, Y |-> 2, Z |-> 3, Time |-> 7]}
Buffers == {[numPoints |-> n, points |-> p] : n \in 0..MaxPoints, p \in [1..MaxPoints -> InputPoints]}

\* The maps the Transform Service may apply between two coordinate systems.
TransformKinds == {"identity", "shift", "flipX"}

VARIABLES
    pc,              \* position of the filter's life cycle
    err,             \* the error raised by the last failing call, or "none"
    haveGDAL,        \* PDAL_HAVE_GDAL of the build
    ctor,            \* which constructor built the filter, and its arguments
    m_inSRS, m_outSRS, m_inferInputSRS,
    m_in_ref_ptr, m_out_ref_ptr, m_transform_ptr,
    upstream,        \* the previous stage
    stage,           \* the filter's own schema, bounds and spatial reference
    svc,             \* the Transform Service: handles created and destroyed
    hist,            \* what initialize() did, in order
    pb,              \* the processBuffer call in progress or last finished
    faux             \* a Faux Reader with its Sequential and its Random iterator

filterVars == <<pc, err, haveGDAL, ctor, m_inSRS, m_outSRS, m_inferInputSRS, m_in_ref_ptr, m_out_ref_ptr, m_transform_ptr, upstream, stage, svc, hist, pb>>

vars == <<filterVars, faux>>

\* shared_ptr members: Unset (default constructed, owns nothing) or the owned
\* pointer, which may be NULL.
Unset == -1

\* No Faux Reader built.
NoRead == [start |-> 0, capacity |-> 0, count |-> 0, points |-> <<>>, sought |-> Unset]
NoFaux == [state |-> "none", err |-> "none", bounds |-> EmptyBounds, numPoints |-> 0, mode |-> "Constant", modeText |-> <<>>, dimensions |-> <<>>, schema |-> <<>>, draws |-> <<>>,
           seqPos |-> 0, seqLast |-> NoRead, seqReads |-> 0, seqExhausted |-> FALSE,
           rndPos |-> 0, rndLast |-> NoRead, rndSought |-> Unset, rndSeekResult |-> Unset]

IdlePB == [state |-> "idle", data |-> [numPoints |-> 0, points |-> <<>>], entry |-> [numPoints |-> 0, points |-> <<>>], numPoints |-> 0, pointIndex |-> 0, xfCalls |-> <<>>, written |-> {}, counts |-> <<>>, failedAt |-> -1]

Init ==
    /\ pc = "new"
    /\ err = "none"
    /\ haveGDAL \in BOOLEAN
    /\ ctor = [kind |-> "none", in |-> NoSRS, out |-> NoSRS, hasIn |-> FALSE, hasOut |-> FALSE]
    /\ m_inSRS = NoSRS
    /\ m_outSRS = NoSRS
    /\ m_inferInputSRS = FALSE
    /\ m_in_ref_ptr = Unset
    /\ m_out_ref_ptr = Unset
    /\ m_transform_ptr = Unset
    /\ upstream = [initialized |-> FALSE, srs |-> Undefined, bounds |-> EmptyBounds, schema |-> {}]
    /\ stage = [schema |-> {}, bounds |-> EmptyBounds, srs |-> NoSRS]
    /\ svc = [created |-> {}, destroyed |-> <<>>, xform |-> "identity"]
    /\ hist = [srsReads |-> <<>>, setSRS |-> 0, setBounds |-> 0, ubCalls |-> 0, ubBefore |-> EmptyBounds, ubRan |-> FALSE, ubFailed |-> "none"]
    /\ pb = IdlePB
    /\ faux = NoFaux

----------------------------------------------------------------------------
\* Construction

\* Mutant: the options constructor always asks for inference.
ReprojectionFilter_Options_alwaysInfer(hasOut, out, hasIn, in) ==
    /\ pc = "new"
    /\ ctor' = [kind |-> "options", in |-> IF hasIn THEN in ELSE NoSRS, out |-> IF hasOut THEN out ELSE NoSRS, hasIn |-> hasIn, hasOut |-> hasOut]
    /\ IF ~hasOut
       THEN /\ pc' = "ctor_failed"
            /\ err' = "option_not_found"
            /\ UNCHANGED <<m_inSRS, m_outSRS, m_inferInputSRS>>
       ELSE /\ pc' = "constructed"
            /\ err' = "none"
            /\ m_outSRS' = out
            /\ m_inSRS' = IF hasIn THEN in ELSE NoSRS
            /\ m_inferInputSRS' = TRUE
    /\ UNCHANGED <<haveGDAL, m_in_ref_ptr, m_out_ref_ptr, m_transform_ptr, upstream, stage, svc, hist, pb, faux>>

\* ReprojectionFilter(Stage&, const Options&): out_srs is required
\* (getValueOrThrow), in_srs optional.
ReprojectionFilter_Options(hasOut, out, hasIn, in) ==
    /\ pc = "new"
    /\ ctor' = [kind |-> "options", in |-> IF hasIn THEN in ELSE NoSRS, out |-> IF hasOut THEN out ELSE NoSRS, hasIn |-> hasIn, hasOut |-> hasOut]
    /\ IF ~hasOut
       THEN /\ pc' = "ctor_failed"
            /\ err' = "option_not_found"
            /\ UNCHANGED <<m_inSRS, m_outSRS, m_inferInputSRS>>
       ELSE /\ pc' = "constructed"
            /\ err' = "none"
            /\ m_outSRS' = out
            /\ m_inSRS' = IF hasIn THEN in ELSE NoSRS
            /\ m_inferInputSRS' = ~hasIn
    /\ UNCHANGED <<haveGDAL, m_in_ref_ptr, m_out_ref_ptr, m_transform_ptr, upstream, stage, svc, hist, pb, faux>>

\* ReprojectionFilter(Stage&, const SpatialReference& outSRS)
ReprojectionFilter_Out(out) ==
    /\ pc = "new"
    /\ ctor' = [kind |-> "outOnly", in |-> NoSRS, out |-> out, hasIn |-> FALSE, hasOut |-> TRUE]
    /\ pc' = "constructed"
    /\ m_outSRS' = out
    /\ m_inferInputSRS' = TRUE
    /\ UNCHANGED <<err, haveGDAL, m_inSRS, m_in_ref_ptr, m_out_ref_ptr, m_transform_ptr, upstream, stage, svc, hist, pb, faux>>

\* ReprojectionFilter(Stage&, const SpatialReference& inSRS, const SpatialReference& outSRS)
ReprojectionFilter_InOut(in, out) ==
    /\ pc = "new"
    /\ ctor' = [kind |-> "inOut", in |-> in, out |-> out, hasIn |-> TRUE, hasOut |-> TRUE]
    /\ pc' = "constructed"
    /\ m_inSRS' = in
    /\ m_outSRS' = out
    /\ m_inferInputSRS' = FALSE
    /\ UNCHANGED <<err, haveGDAL, m_in_ref_ptr, m_out_ref_ptr, m_transform_ptr, upstream, stage, svc, hist, pb, faux>>

----------------------------------------------------------------------------
\* initialize()

\* Filter::initialize(): the base initialization.  It initializes the
\* upstream stage first; the filter then has upstream's schema, bounds and
\* declared spatial reference as its own.
Filter_initialize(schema, srs, bounds) ==
    /\ pc = "constructed"
    /\ upstream' = [initialized |-> TRUE, srs |-> srs, bounds |-> bounds, schema |-> schema]
    /\ stage' = [schema |-> schema, bounds |-> bounds, srs |-> srs]
    /\ pc' = "checkImpedance"
    /\ UNCHANGED <<err, haveGDAL, ctor, m_inSRS, m_outSRS, m_inferInputSRS, m_in_ref_ptr, m_out_ref_ptr, m_transform_ptr, svc, hist, pb, faux>>

\* Mutant: the check forgets the Z dimension.
impedanceOK_withoutZ(schema) ==
    /\ "X_f64" \in schema
    /\ "Y_f64" \in schema

\* checkImpedance(): X, Y and Z must be there as doubles.
impedanceOK(schema) ==
    /\ "X_f64" \in schema
    /\ "Y_f64" \in schema
    /\ "Z_f64" \in schema

checkImpedance ==
    /\ pc = "checkImpedance"
    /\ IF impedanceOK(stage.schema)
       THEN pc' = "inferInputSRS" /\ UNCHANGED err
       ELSE pc' = "init_failed" /\ err' = "impedance_invalid"
    /\ UNCHANGED <<haveGDAL, ctor, m_inSRS, m_outSRS, m_inferInputSRS, m_in_ref_ptr, m_out_ref_ptr, m_transform_ptr, upstream, stage, svc, hist, pb, faux>>

\* if (m_inferInputSRS) m_inSRS = getPrevStage().getSpatialReference();
InferInputSRS ==
    /\ pc = "inferInputSRS"
    /\ IF m_inferInputSRS
       THEN /\ m_inSRS' = upstream.srs
            /\ hist' = [hist EXCEPT !.srsReads = Append(@, [at |-> "initialize", upstreamInitialized |-> upstream.initialized])]
       ELSE UNCHANGED <<m_inSRS, hist>>
    /\ pc' = IF haveGDAL THEN "newReferences" ELSE "setSpatialReference"
    /\ UNCHANGED <<err, haveGDAL, ctor, m_outSRS, m_inferInputSRS, m_in_ref_ptr, m_out_ref_ptr, m_transform_ptr, upstream, stage, svc, pb, faux>>

\* The Transform Service (OGR): a new handle is one more than those created.
OSRNewSpatialReference(s) ==
    LET h == Cardinality(s.created) + 1
    IN  [svc |-> [s EXCEPT !.created = @ \cup {h}], handle |-> h]

\* OSRSetFromUserInput: parsing a spatial-reference text.
OSRSetFromUserInput(text) == IF text \in KnownSRS THEN "OGRERR_NONE" ELSE "OGRERR_FAILURE"

\* The maps the service may build between two coordinate systems: the
\* identity between a system and itself.
ServiceMaps(in, out) == IF in = out THEN {"identity"} ELSE TransformKinds \ {"identity"}

\* OCTNewCoordinateTransformation: a new handle, or NULL when there is no
\* transform path (ok = FALSE).
OCTNewCoordinateTransformation(s, ok, kind) ==
    LET h == Cardinality(s.created) + 1
    IN  IF ok
        THEN [svc |-> [s EXCEPT !.created = @ \cup {h}, !.xform = kind], handle |-> h]
        ELSE [svc |-> s, handle |-> NULL]

\* OCTTransform on one point, when it succeeds.
OCTTransform(kind, p) ==
    CASE kind = "identity" -> p
      [] kind = "shift" -> <<p[1] + 10, p[2] + 20, p[3] + 30>>
      [] kind = "flipX" -> <<0 - p[1], p[2], p[3]>>

\* m_in_ref_ptr = ReferencePtr(OSRNewSpatialReference(0), ...); the same for
\* m_out_ref_ptr.
NewReferences ==
    /\ pc = "newReferences"
    /\ LET r1 == OSRNewSpatialReference(svc)
           r2 == OSRNewSpatialReference(r1.svc)
       IN  /\ m_in_ref_ptr' = r1.handle
           /\ m_out_ref_ptr' = r2.handle
           /\ svc' = r2.svc
    /\ pc' = "setInputFromUserInput"
    /\ UNCHANGED <<err, haveGDAL, ctor, m_inSRS, m_outSRS, m_inferInputSRS, m_transform_ptr, upstream, stage, hist, pb, faux>>

\* OSRSetFromUserInput(m_in_ref_ptr.get(), m_inSRS.getWKT(...))
SetInputFromUserInput ==
    /\ pc = "setInputFromUserInput"
    /\ IF OSRSetFromUserInput(m_inSRS) # "OGRERR_NONE"
       THEN pc' = "init_failed" /\ err' = "input_import"
       ELSE pc' = "setOutputFromUserInput" /\ UNCHANGED err
    /\ UNCHANGED <<haveGDAL, ctor, m_inSRS, m_outSRS, m_inferInputSRS, m_in_ref_ptr, m_out_ref_ptr, m_transform_ptr, upstream, stage, svc, hist, pb, faux>>

\* Mutant: the result of the output import is not tested.
SetOutputFromUserInput_unchecked ==
    /\ pc = "setOutputFromUserInput"
    /\ pc' = "newTransform"
    /\ UNCHANGED <<err, haveGDAL, ctor, m_inSRS, m_outSRS, m_inferInputSRS, m_in_ref_ptr, m_out_ref_ptr, m_transform_ptr, upstream, stage, svc, hist, pb, faux>>

\* OSRSetFromUserInput(m_out_ref_ptr.get(), m_outSRS.getWKT(...))
SetOutputFromUserInput ==
    /\ pc = "setOutputFromUserInput"
    /\ IF OSRSetFromUserInput(m_outSRS) # "OGRERR_NONE"
       THEN pc' = "init_failed" /\ err' = "output_import"
       ELSE pc' = "newTransform" /\ UNCHANGED err
    /\ UNCHANGED <<haveGDAL, ctor, m_inSRS, m_outSRS, m_inferInputSRS, m_in_ref_ptr, m_out_ref_ptr, m_transform_ptr, upstream, stage, svc, hist, pb, faux>>

\* Mutant: a NULL transform handle is not tested.
NewTransform_nullAccepted(ok, kind) ==
    /\ pc = "newTransform"
    /\ kind \in ServiceMaps(m_inSRS, m_outSRS)
    /\ LET r == OCTNewCoordinateTransformation(svc, ok, kind)
       IN  /\ m_transform_ptr' = r.handle
           /\ svc' = r.svc
    /\ pc' = "setSpatialReference"
    /\ UNCHANGED <<err, haveGDAL, ctor, m_inSRS, m_outSRS, m_inferInputSRS, m_in_ref_ptr, m_out_ref_ptr, upstream, stage, hist, pb, faux>>

\* m_transform_ptr = TransformPtr(OCTNewCoordinateTransformation(...), ...);
\* a NULL result is an error.
NewTransform(ok, kind) ==
    /\ pc = "newTransform"
    /\ kind \in ServiceMaps(m_inSRS, m_outSRS)
    /\ LET r == OCTNewCoordinateTransformation(svc, ok, kind)
       IN  /\ m_transform_ptr' = r.handle
           /\ svc' = r.svc
           /\ IF r.handle = NULL
              THEN pc' = "init_failed" /\ err' = "no_transform"
              ELSE pc' = "setSpatialReference" /\ UNCHANGED err
    /\ UNCHANGED <<haveGDAL, ctor, m_inSRS, m_outSRS, m_inferInputSRS, m_in_ref_ptr, m_out_ref_ptr, upstream, stage, hist, pb, faux>>

\* Mutant: the declared spatial reference is left as it was.
SetSpatialReference_skipped ==
    /\ pc = "setSpatialReference"
    /\ pc' = "updateBounds"
    /\ UNCHANGED <<err, haveGDAL, ctor, m_inSRS, m_outSRS, m_inferInputSRS, m_in_ref_ptr, m_out_ref_ptr, m_transform_ptr, upstream, stage, svc, hist, pb, faux>>

\* setSpatialReference(m_outSRS)
SetSpatialReference ==
    /\ pc = "setSpatialReference"
    /\ stage' = [stage EXCEPT !.srs = m_outSRS]
    /\ hist' = [hist EXCEPT !.setSRS = @ + 1]
    /\ pc' = "updateBounds"
    /\ UNCHANGED <<err, haveGDAL, ctor, m_inSRS, m_outSRS, m_inferInputSRS, m_in_ref_ptr, m_out_ref_ptr, m_transform_ptr, upstream, svc, pb, faux>>

\* Mutant: a failure return of the service is ignored.
transform_ignoringFailure(ok, p) ==
    IF haveGDAL
    THEN [threw |-> FALSE, p |-> IF ok THEN OCTTransform(svc.xform, p) ELSE p, calls |-> 1]
    ELSE [threw |-> FALSE, p |-> p, calls |-> 0]

\* transform(x, y, z): one call of the service; a failure return (ok = FALSE)
\* throws pdal_error.  Without GDAL it does nothing.
transform(ok, p) ==
    IF haveGDAL
    THEN [threw |-> ~ok, p |-> IF ok THEN OCTTransform(svc.xform, p) ELSE p, calls |-> 1]
    ELSE [threw |-> FALSE, p |-> p, calls |-> 0]

\* Bounds::getMinimum / getMaximum over the three axes.
getMinimum(b, unspecified) == IF b.valid THEN b.min ELSE unspecified
getMaximum(b, unspecified) == IF b.valid THEN b.max ELSE unspecified

\* Mutant: only a failure of the first corner keeps the old bounds.
boundsAfterUpdate_firstOnly(oldBounds, t1, t2) ==
    IF t1.threw
    THEN oldBounds
    ELSE Bounds(t1.p[1], t1.p[2], t1.p[3], t2.p[1], t2.p[2], t2.p[3])

\* The bounds updateBounds() leaves: pdal_error from either transform is
\* caught and the bounds stay; otherwise the box of the transformed corners.
boundsAfterUpdate(oldBounds, t1, t2) ==
    IF t1.threw \/ t2.threw
    THEN oldBounds
    ELSE Bounds(t1.p[1], t1.p[2], t1.p[3], t2.p[1], t2.p[2], t2.p[3])

\* updateBounds(): the last step of initialize().  The second transform is
\* not reached when the first throws.
updateBounds(ok1, ok2, u1, u2) ==
    /\ pc = "updateBounds"
    /\ LET oldBounds == stage.bounds
           t1 == transform(ok1, getMinimum(oldBounds, u1))
           t2 == transform(ok2, getMaximum(oldBounds, u2))
           failed == IF t1.threw THEN "min" ELSE IF t2.threw THEN "max" ELSE "none"
           calls == t1.calls + (IF t1.threw THEN 0 ELSE t2.calls)
       IN  /\ stage' = [stage EXCEPT !.bounds = boundsAfterUpdate(oldBounds, t1, t2)]
           /\ hist' = [hist EXCEPT !.ubRan = TRUE, !.ubBefore = oldBounds, !.ubCalls = calls, !.ubFailed = failed,
                                   !.setBounds = @ + (IF failed = "none" THEN 1 ELSE 0)]
    /\ pc' = "initialized"
    /\ UNCHANGED <<err, haveGDAL, ctor, m_inSRS, m_outSRS, m_inferInputSRS, m_in_ref_ptr, m_out_ref_ptr, m_transform_ptr, upstream, svc, pb, faux>>

----------------------------------------------------------------------------
\* processBuffer()

\* Mutant: Z is not written back.
setXYZ_withoutZ(points, pointIndex, p) ==
    [points EXCEPT ![pointIndex + 1] = [@ EXCEPT !.X = p[1], !.Y = p[2]]]

\* PointBuffer::setField<double> of X, Y, Z of the point at pointIndex.
setXYZ(points, pointIndex, p) ==
    [points EXCEPT ![pointIndex + 1] = [@ EXCEPT !.X = p[1], !.Y = p[2], !.Z = p[3]]]

\* Entry: numPoints = data.getNumPoints(), pointIndex = 0.
ProcessBufferBegin(data) ==
    /\ pc = "initialized"
    /\ pb.state # "loop"
    /\ pb' = [state |-> "loop", data |-> data, entry |-> data, numPoints |-> data.numPoints, pointIndex |-> 0,
              xfCalls |-> <<>>, written |-> {}, counts |-> <<>>, failedAt |-> -1]
    /\ err' = "none"
    /\ UNCHANGED <<pc, haveGDAL, ctor, m_inSRS, m_outSRS, m_inferInputSRS, m_in_ref_ptr, m_out_ref_ptr, m_transform_ptr, upstream, stage, svc, hist, faux>>

\* Mutant: the valid-count is not advanced point by point.
setNumPoints_ignored(data, n) == data

\* Mutant: the valid-count is set one too far.
setNumPoints_oneTooFar(data, n) == [data EXCEPT !.numPoints = n + 1]

\* PointBuffer::setNumPoints
setNumPoints(data, n) == [data EXCEPT !.numPoints = n]

\* Mutant: X is written back before the result of the service is tested.
ProcessPoint_partialWrite(ok) ==
    /\ pc = "initialized"
    /\ pb.state = "loop"
    /\ pb.pointIndex < pb.numPoints
    /\ LET pt == pb.data.points[pb.pointIndex + 1]
           t == transform(ok, <<pt.X, pt.Y, pt.Z>>)
           calls == IF t.calls = 1 THEN Append(pb.xfCalls, [index |-> pb.pointIndex, ok |-> ok]) ELSE pb.xfCalls
           written == [pb.data EXCEPT !.points = setXYZ(pb.data.points, pb.pointIndex, t.p)]
           counted == setNumPoints(written, pb.pointIndex + 1)
           partial == [pb.data EXCEPT !.points[pb.pointIndex + 1].X = OCTTransform(svc.xform, <<pt.X, pt.Y, pt.Z>>)[1]]
       IN  IF t.threw
           THEN /\ pb' = [pb EXCEPT !.state = "error", !.data = partial, !.xfCalls = calls, !.failedAt = pb.pointIndex]
                /\ err' = "pdal_error"
           ELSE /\ pb' = [pb EXCEPT !.data = counted,
                                    !.pointIndex = @ + 1,
                                    !.xfCalls = calls,
                                    !.written = @ \cup {pb.pointIndex},
                                    !.counts = Append(@, counted.numPoints)]
                /\ UNCHANGED err
    /\ UNCHANGED <<pc, haveGDAL, ctor, m_inSRS, m_outSRS, m_inferInputSRS, m_in_ref_ptr, m_out_ref_ptr, m_transform_ptr, upstream, stage, svc, hist, faux>>

\* One iteration of the loop: getField X, Y, Z; transform; setField X, Y, Z;
\* setNumPoints(pointIndex + 1).  A throw of transform leaves the loop.
\* pb.xfCalls keeps each call of the service with what the service returned.
ProcessPoint(ok) ==
    /\ pc = "initialized"
    /\ pb.state = "loop"
    /\ pb.pointIndex < pb.numPoints
    /\ LET pt == pb.data.points[pb.pointIndex + 1]
           t == transform(ok, <<pt.X, pt.Y, pt.Z>>)
           calls == IF t.calls = 1 THEN Append(pb.xfCalls, [index |-> pb.pointIndex, ok |-> ok]) ELSE pb.xfCalls
           written == [pb.data EXCEPT !.points = setXYZ(pb.data.points, pb.pointIndex, t.p)]
           counted == setNumPoints(written, pb.pointIndex + 1)
       IN  IF t.threw
           THEN /\ pb' = [pb EXCEPT !.state = "error", !.xfCalls = calls, !.failedAt = pb.pointIndex]
                /\ err' = "pdal_error"
           ELSE /\ pb' = [pb EXCEPT !.data = counted,
                                    !.pointIndex = @ + 1,
                                    !.xfCalls = calls,
                                    !.written = @ \cup {pb.pointIndex},
                                    !.counts = Append(@, counted.numPoints)]
                /\ UNCHANGED err
    /\ UNCHANGED <<pc, haveGDAL, ctor, m_inSRS, m_outSRS, m_inferInputSRS, m_in_ref_ptr, m_out_ref_ptr, m_transform_ptr, upstream, stage, svc, hist, faux>>

\* The loop condition fails: return.
ProcessBufferReturn ==
    /\ pc = "initialized"
    /\ pb.state = "loop"
    /\ ~(pb.pointIndex < pb.numPoints)
    /\ pb' = [pb EXCEPT !.state = "done"]
    /\ UNCHANGED <<pc, err, haveGDAL, ctor, m_inSRS, m_outSRS, m_inferInputSRS, m_in_ref_ptr, m_out_ref_ptr, m_transform_ptr, upstream, stage, svc, hist, faux>>

----------------------------------------------------------------------------
\* Destruction

\* OGRSpatialReferenceDeleter: ::OSRDestroySpatialReference(ptr)
OGRSpatialReferenceDeleter(s, ptr) == [s EXCEPT !.destroyed = Append(@, ptr)]

\* OSRTransformDeleter: ::OCTDestroyCoordinateTransformation(ptr)
OSRTransformDeleter(s, ptr) == [s EXCEPT !.destroyed = Append(@, ptr)]

\* Mutant: the transform handle is not released.
ReleaseHandles_withoutTransform(s) ==
    LET s2 == IF m_out_ref_ptr = Unset THEN s ELSE OGRSpatialReferenceDeleter(s, m_out_ref_ptr)
    IN  IF m_in_ref_ptr = Unset THEN s2 ELSE OGRSpatialReferenceDeleter(s2, m_in_ref_ptr)

\* The members' release when the filter instance goes away: a pointer that
\* was set with a deleter has it called, NULL or not.
ReleaseHandles(s) ==
    LET s1 == IF m_transform_ptr = Unset THEN s ELSE OSRTransformDeleter(s, m_transform_ptr)
        s2 == IF m_out_ref_ptr = Unset THEN s1 ELSE OGRSpatialReferenceDeleter(s1, m_out_ref_ptr)
    IN  IF m_in_ref_ptr = Unset THEN s2 ELSE OGRSpatialReferenceDeleter(s2, m_in_ref_ptr)

Destroy ==
    /\ pc \in {"constructed", "init_failed", "initialized"}
    /\ pb.state # "loop"
    /\ svc' = ReleaseHandles(svc)
    /\ m_in_ref_ptr' = Unset
    /\ m_out_ref_ptr' = Unset
    /\ m_transform_ptr' = Unset
    /\ pc' = "destroyed"
    /\ UNCHANGED <<err, haveGDAL, ctor, m_inSRS, m_outSRS, m_inferInputSRS, upstream, stage, hist, pb, faux>>

----------------------------------------------------------------------------

Next ==
    \/ \E hasOut \in BOOLEAN, hasIn \in BOOLEAN, out \in SRSTexts, in \in SRSTexts : ReprojectionFilter_Options(hasOut, out, hasIn, in)
    \/ \E out \in SRSTexts : ReprojectionFilter_Out(out)
    \/ \E in \in SRSTexts, out \in SRSTexts : ReprojectionFilter_InOut(in, out)
    \/ \E schema \in Schemas, srs \in KnownSRS \cup {NoSRS}, bounds \in UpstreamBounds : Filter_initialize(schema, srs, bounds)
    \/ checkImpedance
    \/ InferInputSRS
    \/ NewReferences
    \/ SetInputFromUserInput
    \/ SetOutputFromUserInput
    \/ \E ok \in BOOLEAN, kind \in TransformKinds : NewTransform(ok, kind)
    \/ SetSpatialReference
    \/ \E ok1 \in BOOLEAN, ok2 \in BOOLEAN, u1 \in UnspecifiedCorners, u2 \in UnspecifiedCorners : updateBounds(ok1, ok2, u1, u2)
    \/ \E data \in Buffers : ProcessBufferBegin(data)
    \/ \E ok \in BOOLEAN : ProcessPoint(ok)
    \/ ProcessBufferReturn
    \/ Destroy

Spec == Init /\ [][Next]_vars

----------------------------------------------------------------------------
\* The Faux Reader (pdal::drivers::faux::Reader) and its iterators, as
\* test/unit/FauxReaderTest.cpp drives them.

\* Most points a reader is asked for, and the largest buffer read into.
MaxFauxPoints == 3
MaxCapacity == 2

\* Doubles as fractions in lowest terms with a positive denominator.
RECURSIVE GCD(_, _)
GCD(a, b) == IF b = 0 THEN a ELSE GCD(b, a % b)
Abs(a) == IF a < 0 THEN 0 - a ELSE a
Frac(n, d) ==
    LET g == GCD(Abs(n), Abs(d))
        sign == IF d < 0 THEN 0 - 1 ELSE 1
    IN  [n |-> (sign * n) \div g, d |-> (sign * d) \div g]
FracAdd(a, b) == Frac(a.n * b.d + b.n * a.d, a.d * b.d)
FracMul(a, b) == Frac(a.n * b.n, a.d * b.d)
FracLE(a, b) == a.n * b.d <= b.n * a.d

\* Bounds, point counts and dimension lists the tests build readers with.
FauxBounds == {Bounds(0, 0, 0, 4, 4, 4), Bounds(1, 2, 3, 101, 152, 203)}
DefaultDimensions == <<"X_f64", "Y_f64", "Z_f64", "Time_u64">>
CustomDimensions == {<<"Red_u8", "Blue_u8">>, <<"Z_f64", "Red_u8", "X_f64">>}
FauxModes == {"Constant", "Random", "Ramp"}

\* The "mode" option: a text, letter by letter.
ModeTexts == {<<"c", "o", "n", "S", "T", "a", "n", "T">>, <<"R", "A", "M", "P">>, <<"r", "a", "n", "d", "o", "m">>, <<"l", "i", "n", "e", "a", "r">>}
ToLowerChar_asIs(c) == c

ToLowerChar(c) ==
    CASE c = "A" -> "a" [] c = "M" -> "m" [] c = "P" -> "p" [] c = "R" -> "r" [] c = "S" -> "s" [] c = "T" -> "t"
      [] OTHER -> c
ToLower(text) == [i \in DOMAIN text |-> ToLowerChar(text[i])]

\* The mode an option text selects, or "" for none.
ParseMode(text) ==
    LET t == ToLower(text)
    IN  CASE t = <<"c", "o", "n", "s", "t", "a", "n", "t">> -> "Constant"
          [] t = <<"r", "a", "n", "d", "o", "m">> -> "Random"
          [] t = <<"r", "a", "m", "p">> -> "Ramp"
          [] OTHER -> ""

addDimensions_reversed(schema, dims) == schema \o [i \in 1..Len(dims) |-> dims[Len(dims) + 1 - i]]

\* The Schema built from a dimension list: the dimensions are added one by
\* one, in the list's order.
RECURSIVE addDimensions(_, _)
addDimensions(schema, dims) ==
    IF dims = <<>> THEN schema ELSE addDimensions(Append(schema, Head(dims)), Tail(dims))

Schema_getDimension(schema, i) == schema[i + 1]
Schema_hasDimension(schema, id) == \E i \in DOMAIN schema : schema[i] = id

\* What Random mode may draw for the point at one position: each coordinate
\* a value of [min, max] on its axis.  A reader's draws are a function of
\* the position.
RandomDraws(bounds) ==
    {<<Frac(bounds.min[1], 1), Frac(bounds.max[2], 1), Frac(bounds.min[3] + bounds.max[3], 2)>>,
     <<Frac(bounds.min[1] + bounds.max[1], 2), Frac(bounds.min[2], 1), Frac(bounds.max[3], 1)>>}
DrawTables(bounds, n, mode) == IF mode = "Random" THEN [1..n -> RandomDraws(bounds)] ELSE {<<>>}

rampDelta_overCount(bounds, n, axis) ==
    IF n = 0 THEN Frac(0, 1) ELSE Frac(bounds.max[axis] - bounds.min[axis], n)

\* Ramp mode: the step per point on one axis; a single point has none.
rampDelta(bounds, n, axis) ==
    IF n <= 1 THEN Frac(0, 1) ELSE Frac(bounds.max[axis] - bounds.min[axis], n - 1)

\* One coordinate of the point at a position of the reader's sequence.
coordinateAt(f, index, axis) ==
    CASE f.mode = "Constant" -> Frac(f.bounds.min[axis], 1)
      [] f.mode = "Random" -> f.draws[index + 1][axis]
      [] f.mode = "Ramp" -> FracAdd(Frac(f.bounds.min[axis], 1), FracMul(rampDelta(f.bounds, f.numPoints, axis), Frac(index, 1)))

\* The point at a position: X, Y, Z and the time field.
pointAt(f, index) ==
    [X |-> coordinateAt(f, index, 1), Y |-> coordinateAt(f, index, 2), Z |-> coordinateAt(f, index, 3), Time |-> index]

Min(a, b) == IF a <= b THEN a ELSE b

readBuffer_timeFromBufferIndex(f, cursor, capacity) ==
    LET count == Min(capacity, f.numPoints - cursor)
    IN  [start |-> cursor, capacity |-> capacity, count |-> count,
         points |-> [j \in 1..count |-> [pointAt(f, cursor + j - 1) EXCEPT !.Time = j - 1]]]

\* read(buffer) of an iterator at a cursor: the points fill the buffer from
\* its index 0, as many as the buffer holds and the reader has left.
readBuffer(f, cursor, capacity) ==
    LET count == Min(capacity, f.numPoints - cursor)
    IN  [start |-> cursor, capacity |-> capacity, count |-> count, points |-> [j \in 1..count |-> pointAt(f, cursor + j - 1)]]

readable(schema) == \A i \in DOMAIN DefaultDimensions : Schema_hasDimension(schema, DefaultDimensions[i])

\* Reader(bounds, numPoints, mode) and Reader(bounds, numPoints, mode, dimensions)
FauxReader(bounds, n, mode, dims, draws) ==
    /\ faux.state = "none"
    /\ faux' = [faux EXCEPT !.state = "ready", !.bounds = bounds, !.numPoints = n, !.mode = mode,
                            !.dimensions = dims, !.schema = addDimensions(<<>>, dims), !.draws = draws]
    /\ UNCHANGED filterVars

\* Reader(options): the mode is read from its text in any letter case.
FauxReader_Options(bounds, n, modeText, draws) ==
    /\ faux.state = "none"
    /\ LET mode == ParseMode(modeText)
       IN  IF mode = ""
           THEN faux' = [faux EXCEPT !.state = "ctor_failed", !.err = "invalid_mode", !.modeText = modeText]
           ELSE /\ draws \in DrawTables(bounds, n, mode)
                /\ faux' = [faux EXCEPT !.state = "ready", !.bounds = bounds, !.numPoints = n, !.mode = mode, !.modeText = modeText,
                                        !.dimensions = DefaultDimensions, !.schema = addDimensions(<<>>, DefaultDimensions), !.draws = draws]
    /\ UNCHANGED filterVars

SeqRead_cursorKept(capacity) ==
    /\ faux.state = "ready"
    /\ IF ~readable(faux.schema)
       THEN faux' = [faux EXCEPT !.state = "read_failed", !.err = "dimension_not_found"]
       ELSE LET r == readBuffer(faux, faux.seqPos, capacity)
            IN  faux' = [faux EXCEPT !.seqLast = [start |-> r.start, capacity |-> r.capacity, count |-> r.count, points |-> r.points, sought |-> Unset],
                                     !.seqReads = IF faux.seqExhausted THEN @ ELSE @ + 1,
                                     !.seqExhausted = @ \/ r.count = 0]
    /\ UNCHANGED filterVars

\* StageSequentialIterator::read
SeqRead(capacity) ==
    /\ faux.state = "ready"
    /\ IF ~readable(faux.schema)
       THEN faux' = [faux EXCEPT !.state = "read_failed", !.err = "dimension_not_found"]
       ELSE LET r == readBuffer(faux, faux.seqPos, capacity)
            IN  faux' = [faux EXCEPT !.seqPos = @ + r.count,
                                     !.seqLast = [start |-> r.start, capacity |-> r.capacity, count |-> r.count, points |-> r.points, sought |-> Unset],
                                     !.seqReads = IF faux.seqExhausted THEN @ ELSE @ + 1,
                                     !.seqExhausted = @ \/ r.count = 0]
    /\ UNCHANGED filterVars

RndSeek_cursorKept(position) ==
    /\ faux.state = "ready"
    /\ position < faux.numPoints
    /\ faux' = [faux EXCEPT !.rndSought = position, !.rndSeekResult = position]
    /\ UNCHANGED filterVars

\* StageRandomIterator::seek
RndSeek(position) ==
    /\ faux.state = "ready"
    /\ position < faux.numPoints
    /\ faux' = [faux EXCEPT !.rndPos = position, !.rndSought = position, !.rndSeekResult = position]
    /\ UNCHANGED filterVars

\* StageRandomIterator::read
RndRead(capacity) ==
    /\ faux.state = "ready"
    /\ IF ~readable(faux.schema)
       THEN faux' = [faux EXCEPT !.state = "read_failed", !.err = "dimension_not_found"]
       ELSE LET r == readBuffer(faux, faux.rndPos, capacity)
            IN  faux' = [faux EXCEPT !.rndPos = @ + r.count,
                                     !.rndLast = [start |-> r.start, capacity |-> r.capacity, count |-> r.count, points |-> r.points, sought |-> faux.rndSought],
                                     !.rndSought = Unset]
    /\ UNCHANGED filterVars

FauxInit ==
    /\ Init
    /\ haveGDAL

FauxNext ==
    \/ \E bounds \in FauxBounds, n \in 0..MaxFauxPoints, mode \in FauxModes, dims \in {DefaultDimensions} \cup CustomDimensions :
            \E draws \in DrawTables(bounds, n, mode) : FauxReader(bounds, n, mode, dims, draws)
    \/ \E bounds \in FauxBounds, n \in 0..MaxFauxPoints, modeText \in ModeTexts :
            \E draws \in DrawTables(bounds, n, "Random") \cup {<<>>} : FauxReader_Options(bounds, n, modeText, draws)
    \/ \E capacity \in 1..MaxCapacity : SeqRead(capacity)
    \/ \E position \in 0..MaxFauxPoints : RndSeek(position)
    \/ \E capacity \in 1..MaxCapacity : RndRead(capacity)

FauxSpec == FauxInit /\ [][FauxNext]_vars

----------------------------------------------------------------------------
\* Properties

XYZ(pt) == <<pt.X, pt.Y, pt.Z>>

\* C1: when the Transform Service rejects point k, 0 < k < N, processBuffer
\* raises pdal_error, the buffer's valid-count is k, and points 0..k-1 hold
\* their transformed coordinates.
C1_MidBufferFailure ==
    (pb.state = "error" /\ pb.failedAt > 0) =>
        /\ err = "pdal_error"
        /\ pb.failedAt < pb.entry.numPoints
        /\ pb.data.numPoints = pb.failedAt
        /\ \A i \in 1..pb.failedAt : XYZ(pb.data.points[i]) = OCTTransform(svc.xform, XYZ(pb.entry.points[i]))

C1_Witness ==
    /\ pb.state = "error"
    /\ pb.failedAt = 2
    /\ pb.entry.numPoints = 3
    /\ svc.xform = "shift"
    /\ pb.data.numPoints = 2

\* C2: after a per-point transform error at any index k, k = 0 included, the
\* buffer's valid-count is the number of points written back by the call
\* and not the count N of entry.
C2_ValidCountIsPointsWritten ==
    pb.state = "error" =>
        /\ pb.data.numPoints = Cardinality(pb.written)
        /\ pb.data.numPoints # pb.entry.numPoints

\* C3: a schema without X, Y or Z as doubles fails initialize() with an
\* impedance error; the service created no handle, and the filter set
\* neither its spatial reference nor its bounds.
C3_ImpedanceFailsBeforeHandles ==
    (upstream.initialized /\ ~(RequiredDims \subseteq stage.schema) /\ pc # "checkImpedance") =>
        /\ pc \in {"init_failed", "destroyed"}
        /\ err = "impedance_invalid"
        /\ svc.created = {}
        /\ svc.destroyed = <<>>
        /\ m_in_ref_ptr = Unset /\ m_out_ref_ptr = Unset /\ m_transform_ptr = Unset
        /\ hist.setSRS = 0 /\ hist.setBounds = 0 /\ ~hist.ubRan

C3_Witness ==
    /\ pc = "init_failed"
    /\ err = "impedance_invalid"
    /\ haveGDAL
    /\ "X_i32" \in stage.schema
    /\ svc.created = {}

\* C4: when the transform of the min corner or of the max corner fails in
\* the bounds recompute, initialize() completes and the declared bounds are
\* the bounds held before the recompute.
C4_BoundsKeptOnRecomputeFailure ==
    hist.ubFailed \in {"min", "max"} =>
        /\ pc \in {"initialized", "destroyed"}
        /\ err \in {"none", "pdal_error"}
        /\ pc = "initialized" /\ pb.state = "idle" => err = "none"
        /\ stage.bounds = hist.ubBefore

C4_Witness ==
    /\ pc = "initialized"
    /\ pb.state = "idle"
    /\ hist.ubFailed = "max"
    /\ hist.ubCalls = 2
    /\ stage.bounds = Bounds(0, 0, 0, 1, 2, 3)
    /\ svc.xform = "shift"

\* C5: after a successful initialize() the declared bounds have min <= max
\* on each axis, whatever transform the service applies (stated for upstream
\* bounds that are a box with min <= max).
C5_BoundsOrdered ==
    (pc = "initialized" /\ hist.ubBefore.valid) =>
        \A axis \in 1..3 : stage.bounds.min[axis] <= stage.bounds.max[axis]

\* C6: when the bounds at the recompute are the empty value, updateBounds
\* makes no call to the Transform Service.
C6_EmptyBoundsShortCircuit ==
    (hist.ubRan /\ ~hist.ubBefore.valid) => hist.ubCalls = 0

\* C7: without a supplied input spatial reference, upstream's declared one
\* is read only in initialize() and after upstream's initialize() is done,
\* and it becomes the input; with a supplied one upstream's is never read
\* and the input stays the supplied one.
AfterInference == {"newReferences", "setInputFromUserInput", "setOutputFromUserInput", "newTransform", "setSpatialReference", "updateBounds", "initialized"}

C7_InputInferredAfterUpstreamInit ==
    /\ (pc \notin {"new", "ctor_failed"} /\ ctor.hasIn) =>
            /\ hist.srsReads = <<>>
            /\ m_inSRS = ctor.in
    /\ (pc \notin {"new", "ctor_failed"} /\ ~ctor.hasIn) =>
            /\ \A i \in DOMAIN hist.srsReads : hist.srsReads[i].at = "initialize" /\ hist.srsReads[i].upstreamInitialized
            /\ pc \in {"constructed", "checkImpedance", "inferInputSRS"} => hist.srsReads = <<>>
            /\ pc \in AfterInference => (Len(hist.srsReads) = 1 /\ upstream.initialized /\ m_inSRS = upstream.srs)

C7_Witness ==
    /\ pc = "initialized"
    /\ ctor.kind = "outOnly"
    /\ Len(hist.srsReads) = 1
    /\ m_inSRS = "EPSG:4326"
    /\ m_outSRS = "EPSG:26915"

\* C8: every handle the service created for the filter is destroyed exactly
\* once when the filter is gone, never twice, and no handle is destroyed
\* that was not created, on the successful path and on each error exit of
\* initialize().  Until then each created handle is held by one member.
\* (A deleter run on a NULL pointer, after a failed transform construction,
\* passes no handle.)
DestroyCount(h) == Cardinality({i \in DOMAIN svc.destroyed : svc.destroyed[i] = h})
HeldHandles == {m_in_ref_ptr, m_out_ref_ptr, m_transform_ptr} \ {Unset, NULL}

C8_HandlesReleasedExactlyOnce ==
    /\ \A i \in DOMAIN svc.destroyed : svc.destroyed[i] # NULL => svc.destroyed[i] \in svc.created
    /\ \A h \in svc.created : DestroyCount(h) <= 1
    /\ pc # "destroyed" => (HeldHandles = svc.created /\ svc.destroyed = <<>>)
    /\ pc = "destroyed" => (HeldHandles = {} /\ \A h \in svc.created : DestroyCount(h) = 1)

C8_Witness ==
    /\ pc = "destroyed"
    /\ err = "no_transform"
    /\ svc.created = {1, 2}
    /\ DestroyCount(1) = 1
    /\ DestroyCount(2) = 1

\* C9: a failure return of the service for point k is the last call of the
\* service in that processBuffer call and ends it with pdal_error; the
\* service is called at most once per point index, in increasing order.
C9_FailureIsFatalNoRetry ==
    /\ \A i \in DOMAIN pb.xfCalls :
            ~pb.xfCalls[i].ok =>
                /\ i = Len(pb.xfCalls)
                /\ pb.state = "error"
                /\ pb.failedAt = pb.xfCalls[i].index
                /\ pc = "initialized" => err = "pdal_error"
    /\ \A i, j \in DOMAIN pb.xfCalls : i < j => pb.xfCalls[i].index < pb.xfCalls[j].index
    /\ \A i \in DOMAIN pb.xfCalls : pb.xfCalls[i].index < pb.entry.numPoints

C9_Witness ==
    /\ pb.state = "error"
    /\ pb.failedAt = 1
    /\ pb.entry.numPoints = 3
    /\ Len(pb.xfCalls) = 2
    /\ ~pb.xfCalls[2].ok

\* C10 as stated: within one pass the valid-count never decreases from one
\* setNumPoints call to the next, never falls below its value on entry, and
\* never exceeds the capacity.
C10_NeverBelowEntryCount ==
    pb.state # "idle" =>
        /\ \A i, j \in DOMAIN pb.counts : i <= j => pb.counts[i] <= pb.counts[j]
        /\ pb.data.numPoints >= pb.entry.numPoints
        /\ pb.data.numPoints <= Len(pb.data.points)

\* C10 amended: within one pass the valid-count never decreases from one
\* setNumPoints call to the next and exceeds neither the capacity nor its
\* value on entry; the calls set it to 1, 2, ... in turn, so it is below its
\* value on entry until the last point is done.
C10_MonotonicFromOne ==
    pb.state # "idle" =>
        /\ \A i, j \in DOMAIN pb.counts : i <= j => pb.counts[i] <= pb.counts[j]
        /\ \A i \in DOMAIN pb.counts : pb.counts[i] = i
        /\ pb.counts # <<>> => pb.data.numPoints = pb.counts[Len(pb.counts)]
        /\ pb.counts = <<>> => pb.data.numPoints = pb.entry.numPoints
        /\ pb.data.numPoints <= pb.entry.numPoints
        /\ pb.data.numPoints <= Len(pb.data.points)
        /\ pb.state = "done" => pb.data.numPoints = pb.entry.numPoints

C10_Witness ==
    /\ pb.state = "loop"
    /\ pb.entry.numPoints = 3
    /\ pb.counts = <<1, 2>>
    /\ pb.data.numPoints = 2

\* C11: in a build without the transform library the transform step raises
\* an error: no point passes it, so processBuffer writes no point back.
C11_NoSilentNoOp ==
    ~haveGDAL => pb.written = {}

\* C12 as stated: every configuration error (missing out_srs, malformed
\* input or output text, no transform path) is raised by initialize() and
\* only there, and makes initialize() fail.
ConfigurationErrors == {"option_not_found", "input_import", "output_import", "no_transform"}

C13_IdentityLeavesBoundsAndPoints ==
    (haveGDAL /\ pc = "initialized" /\ m_inSRS = m_outSRS) =>
        /\ svc.xform = "identity"
        /\ stage.bounds = upstream.bounds
        /\ pb.state = "done" => pb.data = pb.entry

\* C20: when no transform fails, processBuffer on a buffer with N valid
\* points calls the transform once for each index 0..N-1 in increasing
\* order, puts the transformed triple in X, Y, Z of that point, and ends
\* with valid-count N; points from index N on and the other fields are as
\* they were.
Transformed(p) == IF haveGDAL THEN OCTTransform(svc.xform, p) ELSE p

C20_AllPointsTransformedInOrder ==
    pb.state = "done" =>
        /\ pb.data.numPoints = pb.entry.numPoints
        /\ pb.pointIndex = pb.entry.numPoints
        /\ pb.written = {i - 1 : i \in 1..pb.entry.numPoints}
        /\ pb.counts = [i \in 1..pb.entry.numPoints |-> i]
        /\ haveGDAL => pb.xfCalls = [i \in 1..pb.entry.numPoints |-> [index |-> i - 1, ok |-> TRUE]]
        /\ Len(pb.data.points) = Len(pb.entry.points)
        /\ \A i \in 1..pb.entry.numPoints :
                /\ XYZ(pb.data.points[i]) = Transformed(XYZ(pb.entry.points[i]))
                /\ pb.data.points[i].Time = pb.entry.points[i].Time
        /\ \A i \in (pb.entry.numPoints + 1)..Len(pb.entry.points) : pb.data.points[i] = pb.entry.points[i]

C20_Witness ==
    /\ pb.state = "done"
    /\ haveGDAL
    /\ svc.xform = "shift"
    /\ pb.entry.numPoints = 2
    /\ Len(pb.xfCalls) = 2
    /\ pb.data.points[2].Z = pb.entry.points[2].Z + 30
    /\ pb.data.points[3] = pb.entry.points[3]

C15_TimeIsSequencePosition ==
    faux.state = "ready"
        => /\ \A j \in 1..faux.seqLast.count : faux.seqLast.points[j].Time = faux.seqLast.start + (j - 1)
           /\ \A j \in 1..faux.rndLast.count : faux.rndLast.points[j].Time = faux.rndLast.start + (j - 1)
           /\ faux.rndLast.sought # Unset => faux.rndLast.start = faux.rndLast.sought
           /\ faux.seqPos = faux.seqLast.start + faux.seqLast.count

C15_Witness ==
    /\ faux.state = "ready"
    /\ faux.mode = "Ramp"
    /\ faux.seqLast.start = 2
    /\ faux.seqLast.count = 1
    /\ faux.seqLast.points[1].Time = 2
    /\ faux.rndLast.sought = 1
    /\ faux.rndLast.count = 2
    /\ faux.rndLast.points[2].Time = 2

\* What a read into a buffer of some capacity must return at a cursor of a
\* reader of n points.
Remaining(n, cursor, capacity) == IF capacity <= n - cursor THEN capacity ELSE n - cursor

\* C16: each read returns the smaller of the buffer's capacity and the
\* points remaining from the cursor and advances the cursor by that count;
\* seek(p) within range returns p and leaves the cursor at p; a consumer
\* reading from position 0 has received exactly N points when a read returns
\* 0, and that read comes after at most N earlier reads.
C16_ReadCountsAndExhaustion ==
    faux.state = "ready"
        => /\ faux.seqLast.count = Remaining(faux.numPoints, faux.seqLast.start, faux.seqLast.capacity)
           /\ faux.seqPos = faux.seqLast.start + faux.seqLast.count
           /\ faux.rndLast.count = Remaining(faux.numPoints, faux.rndLast.start, faux.rndLast.capacity)
           /\ faux.rndSought = Unset => faux.rndPos = faux.rndLast.start + faux.rndLast.count
           /\ faux.rndSought # Unset => faux.rndSeekResult = faux.rndSought /\ faux.rndPos = faux.rndSought
           /\ faux.seqExhausted => faux.seqPos = faux.numPoints
           /\ (faux.seqReads > 0 /\ faux.seqLast.count = 0) => faux.seqExhausted
           /\ faux.seqReads <= faux.numPoints + 1
           /\ ~faux.seqExhausted => faux.seqReads <= faux.seqPos

C16_Witness ==
    /\ faux.state = "ready"
    /\ faux.numPoints = 3
    /\ faux.seqExhausted
    /\ faux.seqReads = 3
    /\ faux.seqPos = 3
    /\ faux.rndSought = 2
    /\ faux.rndLast.start = 1
    /\ faux.rndLast.count = 2

\* A coordinate delivered at position i of n on an axis is the ramp's value
\* min + i*(max-min)/(n-1), compared without dividing.
OnRamp(value, bounds, n, i, axis) ==
    /\ value.d > 0
    /\ IF n = 1
       THEN value = [n |-> bounds.min[axis], d |-> 1]
       ELSE value.n * (n - 1) = value.d * (bounds.min[axis] * (n - 1) + i * (bounds.max[axis] - bounds.min[axis]))
    /\ (n >= 2 /\ i = 0) => value = [n |-> bounds.min[axis], d |-> 1]
    /\ (n >= 2 /\ i = n - 1) => value = [n |-> bounds.max[axis], d |-> 1]

RampRead(r) ==
    \A j \in 1..r.count :
        /\ OnRamp(r.points[j].X, faux.bounds, faux.numPoints, r.start + (j - 1), 1)
        /\ OnRamp(r.points[j].Y, faux.bounds, faux.numPoints, r.start + (j - 1), 2)
        /\ OnRamp(r.points[j].Z, faux.bounds, faux.numPoints, r.start + (j - 1), 3)

\* C17: in Ramp mode with N points the point at position i has each
\* coordinate at min + i*(max-min)/(N-1) on its axis: for N >= 2 point 0 is
\* the minimum corner and point N-1 the maximum corner, and for N = 1 the
\* single point is the minimum corner, with no division by zero.
C17_RampInterpolates ==
    (faux.state = "ready" /\ faux.mode = "Ramp") => RampRead(faux.seqLast) /\ RampRead(faux.rndLast)

C17_Witness ==
    /\ faux.state = "ready"
    /\ faux.mode = "Ramp"
    /\ faux.numPoints = 3
    /\ faux.bounds = Bounds(1, 2, 3, 101, 152, 203)
    /\ faux.seqLast.start = 1
    /\ faux.seqLast.count = 2
    /\ faux.seqLast.points[1].Y = [n |-> 77, d |-> 1]
    /\ faux.seqLast.points[2].Z = [n |-> 203, d |-> 1]
    /\ faux.rndLast.start = 0
    /\ faux.rndLast.count = 1
    /\ faux.rndLast.points[1].X = [n |-> 1, d |-> 1]

C17_WitnessSinglePoint ==
    /\ faux.state = "ready"
    /\ faux.mode = "Ramp"
    /\ faux.numPoints = 1
    /\ faux.seqLast.count = 1

AtMinimumCorner(r) ==
    \A j \in 1..r.count :
        /\ r.points[j].X = [n |-> faux.bounds.min[1], d |-> 1]
        /\ r.points[j].Y = [n |-> faux.bounds.min[2], d |-> 1]
        /\ r.points[j].Z = [n |-> faux.bounds.min[3], d |-> 1]

\* C18: the mode option "conSTanT" selects Constant mode as the enum does,
\* and in Constant mode every point either iterator delivers has the
\* coordinates of the bounds' minimum corner, at every position and after
\* any reads and seeks.
C18_ConstantIsMinimumCorner ==
    /\ faux.modeText = <<"c", "o", "n", "S", "T", "a", "n", "T">> => faux.state = "ready" /\ faux.mode = "Constant"
    /\ (faux.state = "ready" /\ faux.mode = "Constant") => AtMinimumCorner(faux.seqLast) /\ AtMinimumCorner(faux.rndLast)

C18_Witness ==
    /\ faux.state = "ready"
    /\ faux.modeText = <<"c", "o", "n", "S", "T", "a", "n", "T">>
    /\ faux.bounds = Bounds(1, 2, 3, 101, 152, 203)
    /\ faux.seqLast.start = 2
    /\ faux.seqLast.count = 1
    /\ faux.rndLast.sought = 1
    /\ faux.rndLast.count = 2
    /\ faux.rndLast.points[2].Z = [n |-> 3, d |-> 1]

\* C19: a reader built with an explicit dimension list has a Schema of
\* exactly those dimensions, the default X, Y, Z and time not added, and
\* getDimension(i) is the i-th dimension of the list for every index i.
C19_SchemaIsTheSuppliedList ==
    faux.state \in {"ready", "read_failed"}
        => /\ Len(faux.schema) = Len(faux.dimensions)
           /\ \A i \in 0..(Len(faux.dimensions) - 1) : Schema_getDimension(faux.schema, i) = faux.dimensions[i + 1]
           /\ \A k \in DOMAIN DefaultDimensions :
                (\A i \in DOMAIN faux.dimensions : faux.dimensions[i] # DefaultDimensions[k])
                    => ~Schema_hasDimension(faux.schema, DefaultDimensions[k])

C19_Witness ==
    /\ faux.state = "ready"
    /\ faux.mode = "Random"
    /\ faux.dimensions = <<"Red_u8", "Blue_u8">>
    /\ Len(faux.schema) = 2
    /\ Schema_getDimension(faux.schema, 0) = "Red_u8"
    /\ Schema_getDimension(faux.schema, 1) = "Blue_u8"

\* initialize() stopped here: no transform built by the service beyond the
\* two references, the declared spatial reference not set, the bounds
\* recompute not run.
StoppedBeforeDeclaring(error) ==
    /\ pc = "init_failed"
    /\ err = error
    /\ Cardinality(svc.created) = 2
    /\ hist.setSRS = 0
    /\ ~hist.ubRan
    /\ hist.setBounds = 0

InputParsed == m_in_ref_ptr # Unset /\ pc # "setInputFromUserInput"
OutputParsed == InputParsed /\ pc # "setOutputFromUserInput" /\ OSRSetFromUserInput(m_inSRS) = "OGRERR_NONE"

\* C21: when the input or the output spatial-reference text does not parse,
\* initialize() fails without constructing a transform handle; when the
\* transform cannot be constructed it fails too; in the three cases the
\* declared spatial reference is not set and the bounds recompute is not run.
C21_ServiceFailuresStopInitialize ==
    /\ (InputParsed /\ OSRSetFromUserInput(m_inSRS) # "OGRERR_NONE")
            => StoppedBeforeDeclaring("input_import") /\ m_transform_ptr = Unset
    /\ (OutputParsed /\ OSRSetFromUserInput(m_outSRS) # "OGRERR_NONE")
            => StoppedBeforeDeclaring("output_import") /\ m_transform_ptr = Unset
    /\ m_transform_ptr = NULL => StoppedBeforeDeclaring("no_transform")

C21_Witness ==
    /\ pc = "init_failed"
    /\ err = "no_transform"
    /\ m_transform_ptr = NULL
    /\ m_in_ref_ptr # Unset
    /\ stage.srs # m_outSRS
    /\ stage.bounds.valid

C21_WitnessInputParse ==
    /\ pc = "init_failed"
    /\ err = "input_import"
    /\ m_inferInputSRS
    /\ m_transform_ptr = Unset
    /\ m_in_ref_ptr # Unset

C21_WitnessOutputParse ==
    /\ pc = "init_failed"
    /\ err = "output_import"
    /\ m_transform_ptr = Unset
    /\ m_out_ref_ptr # Unset

\* C22: after a transform failure at index k in processBuffer the stored X,
\* Y, Z of point k and of every point after it are what they were when the
\* call began; the failing point is not written, in whole or in part.
C22_FailingPointAndRestUntouched ==
    pb.state = "error"
        => /\ pb.failedAt = pb.pointIndex
           /\ \A i \in DOMAIN pb.data.points :
                i - 1 >= pb.failedAt => XYZ(pb.data.points[i]) = XYZ(pb.entry.points[i])

C22_Witness ==
    /\ pb.state = "error"
    /\ haveGDAL
    /\ svc.xform = "flipX"
    /\ pb.numPoints = 3
    /\ pb.failedAt = 1
    /\ XYZ(pb.entry.points[2]) = <<1, 2, 3>>
    /\ XYZ(pb.data.points[1]) # XYZ(pb.entry.points[1])

\* C23: after a successful initialize() the declared spatial reference is
\* the output spatial reference; it is set once, before the bounds recompute
\* runs, and also when the recompute failed and left the declared bounds as
\* they were before it.
C23_OutputDeclaredBeforeBounds ==
    /\ pc = "updateBounds" => stage.srs = m_outSRS /\ hist.setSRS = 1 /\ ~hist.ubRan
    /\ pc = "initialized" => stage.srs = m_outSRS /\ hist.setSRS = 1 /\ hist.ubRan
    /\ (pc = "initialized" /\ hist.ubFailed # "none") => stage.bounds = hist.ubBefore /\ hist.setBounds = 0

C23_Witness ==
    /\ pc = "initialized"
    /\ haveGDAL
    /\ hist.ubFailed = "max"
    /\ stage.srs = m_outSRS
    /\ upstream.srs # m_outSRS
    /\ m_inSRS # m_outSRS
    /\ stage.bounds = Bounds(0, 0, 0, 1, 2, 3)
    /\ pb.state = "idle"

============================================================================
